---- MODULE Spec2Model ----
(***************************************************************************)
(* The storage engine of dividend-tracker (src/src/persistence.rs): the    *)
(* data directory, its primary envelope file dividends.json, the separate  *)
(* file holdings.json and the backup subdirectory.                         *)
(*                                                                         *)
(* save and load are modelled with the helpers they call                   *)
(* (ensure_directories, backup_file, cleanup_old_backups, get_save_count,  *)
(* atomic_write, migrate_data), one action per filesystem step, so that a  *)
(* crash, an I/O failure or another process can fall between any two.      *)
(* save_holdings, load_holdings, save_dividends, load_dividends and        *)
(* get_stats are one action each, from call to return.                     *)
(*                                                                         *)
(* A file's content is a sequence of tokens (a token is a <<tag, value>>   *)
(* pair); a write lays the tokens down ChunkLen at a time, so a file that  *)
(* is being written holds a proper prefix of its final content.            *)
(* The backup directory is a sequence of entries kept in the order of      *)
(* their modification times, oldest first: a write to an entry moves it    *)
(* to the end.  Backup names carry the wall clock in whole seconds (now).  *)
(* metadata.last_saved and metadata.app_version are written by save and    *)
(* read back by no operation; the envelope of the model leaves them out.   *)
(***************************************************************************)
EXTENDS Integers, Sequences, FiniteSets, TLC

VARIABLES dataDir, bakDir, primary, holdingsFile, backups, now, loc, last, ops

vars == <<dataDir, bakDir, primary, holdingsFile, backups, now, loc, last, ops>>

(* ------------------------------ bounds --------------------------------- *)

\* Calls of the engine's operations per behaviour.
MaxOps == 2
\* Seconds the wall clock advances per behaviour.
MaxTicks == 1
\* Tokens one write call lays down.
ChunkLen == 3
\* Days the ex-dividend and pay dates range over.
MaxDay == 3
\* Backups beyond MAX_BACKUPS a directory starts with (left by saves that
\* died between their copy and their pruning).
MaxExtra == 2
\* Bits of save_count in the model; the code's u32 has 32.
CountBits == 5

(* ------------------------- program constants --------------------------- *)

SCHEMA_VERSION == 1
MAX_BACKUPS == 10

\* The processes that may call into one data directory.
Procs == {1, 2, 3}
\* The single-shot CLI: one process at a time.
SeqProcs == {1}
\* Two invocations of the CLI at once on one data directory.
RaceProcs == {1, 2}

(* --------------------------- record sets ------------------------------- *)

\* DividendTracker::new(): no dividends, no holdings.
Empty == [dividends |-> <<>>, holdings |-> <<>>]

\* Vec<Dividend> is ordered (1 and 2 stand for two distinct Dividend records);
\* HashMap<String, Holding> maps a symbol to its holding (here its shares).
Aapl == [s \in {"AAPL"} |-> 100]

\* The record sets a caller passes to save.
RecordSets ==
    {Empty,
     [dividends |-> <<1, 2>>, holdings |-> Aapl],
     [dividends |-> <<2, 1>>, holdings |-> <<>>]}

(* ------------------------- files and envelopes ------------------------- *)

\* The content read at a path that holds no file.
NoFile == << <<"ENOENT", 0>> >>

\* "{ this is not valid json }" (well-formed UTF-8, not JSON) and bytes that
\* are not UTF-8 at all.
NotJson == << <<"open", 0>>, <<"junk", 0>>, <<"close", 0>> >>
NotUtf8 == << <<"invalid_utf8", 0>> >>
Garbage == {NotJson, NotUtf8}

PersistedData(R, c) ==
    [schema_version |-> SCHEMA_VERSION, data |-> R, metadata |-> [save_count |-> c]]

\* Serialize with the holdings skipped (#[serde(skip)] on the field).
SerializeSkipHoldings(e) ==
    << <<"open", 0>>,
       <<"schema_version", e.schema_version>>,
       <<"dividends", e.data.dividends>>,
       <<"holdings", <<>> >>,
       <<"save_count", e.metadata.save_count>>,
       <<"close", 0>> >>

\* serde_json::to_string_pretty(&persisted): data is flattened into the object.
Serialize(e) ==
    << <<"open", 0>>,
       <<"schema_version", e.schema_version>>,
       <<"dividends", e.data.dividends>>,
       <<"holdings", e.data.holdings>>,
       <<"save_count", e.metadata.save_count>>,
       <<"close", 0>> >>

\* fs::read_to_string fails on content that is not UTF-8.
IsUtf8(b) == \A i \in 1..Len(b) : b[i][1] # "invalid_utf8"

\* serde_json::from_str::<PersistedData>: every field present, object closed.
IsEnvelope(b) ==
    /\ Len(b) = 6
    /\ b[1] = <<"open", 0>>
    /\ b[2][1] = "schema_version"
    /\ b[3][1] = "dividends"
    /\ b[4][1] = "holdings"
    /\ b[5][1] = "save_count"
    /\ b[6] = <<"close", 0>>

FromStr(b) ==
    [schema_version |-> b[2][2],
     data |-> [dividends |-> b[3][2], holdings |-> b[4][2]],
     metadata |-> [save_count |-> b[5][2]]]

Take(b, n) == SubSeq(b, 1, IF n < Len(b) THEN n ELSE Len(b))

(* --------------------------- backup directory -------------------------- *)

\* format!("{}_{}.bak", file_name.trim_end_matches(".json"), timestamp)
BackupName(base, t) == [base |-> base, stamp |-> t]

NameOf(e) == [base |-> e.base, stamp |-> e.stamp]

HasBackup(bs, name) == \E i \in 1..Len(bs) : NameOf(bs[i]) = name

\* What backups/<name> holds; nothing when the entry is gone.
BytesOf(bs, name) ==
    IF HasBackup(bs, name)
    THEN bs[CHOOSE i \in 1..Len(bs) : NameOf(bs[i]) = name].bytes
    ELSE <<>>

RemoveBackup(bs, name) ==
    LET Other(e) == NameOf(e) # name IN SelectSeq(bs, Other)

\* A write to backups/<name>: the file holds bytes and is the most recently
\* modified entry (create, truncate and write all set the modification time).
WriteBackup(bs, name, bytes) ==
    Append(RemoveBackup(bs, name), [base |-> name.base, stamp |-> name.stamp, bytes |-> bytes])

\* Matching that takes every .bak file, whatever its name starts with.
MatchingAnyBase(bs, prefix) == bs

\* filename.starts_with(prefix) && filename.ends_with(".bak")
Matching(bs, prefix) ==
    LET Match(e) == e.base = prefix IN SelectSeq(bs, Match)

Reverse(s) == [i \in 1..Len(s) |-> s[Len(s) + 1 - i]]

\* NewestFirst without the Reverse of the sort key: oldest first.
OldestFirst(bs) == bs

\* backups.sort_by_key(Reverse(mtime)): newest first.
NewestFirst(bs) == Reverse(bs)

\* Slice taken from the front of the sorted list (&backups[..len - MAX_BACKUPS]).
SliceFront(sorted) ==
    IF Len(sorted) > MAX_BACKUPS
    THEN [i \in 1..(Len(sorted) - MAX_BACKUPS) |-> NameOf(sorted[i])]
    ELSE <<>>

\* &backups[MAX_BACKUPS..] when backups.len() > MAX_BACKUPS, in that order.
Slice(sorted) ==
    IF Len(sorted) > MAX_BACKUPS
    THEN [i \in 1..(Len(sorted) - MAX_BACKUPS) |-> NameOf(sorted[MAX_BACKUPS + i])]
    ELSE <<>>

\* Victims with the slice taken one entry late (&backups[MAX_BACKUPS + 1..]).
VictimsOffByOne(bs, prefix) ==
    LET sorted == NewestFirst(Matching(bs, prefix))
    IN  IF Len(sorted) > MAX_BACKUPS + 1
        THEN [i \in 1..(Len(sorted) - MAX_BACKUPS - 1) |-> NameOf(sorted[MAX_BACKUPS + 1 + i])]
        ELSE <<>>

\* The entries cleanup_old_backups removes.
Victims(bs, prefix) == Slice(NewestFirst(Matching(bs, prefix)))

\* The same when fs::metadata fails for the entry named u: .ok() makes its
\* key None, which sorts before every Some(Reverse(mtime)).
VictimsUnreadable(bs, prefix, u) ==
    LET m == Matching(bs, prefix)
        Unread(e) == NameOf(e) = u
        Read(e) == NameOf(e) # u
    IN  Slice(SelectSeq(m, Unread) \o NewestFirst(SelectSeq(m, Read)))

(* ------------------------------ save count ----------------------------- *)

\* get_save_count: 0 for an absent, unreadable or unparseable file.
SaveCountOf(b) ==
    IF b = NoFile THEN 0
    ELSE IF IsUtf8(b) /\ IsEnvelope(b) THEN FromStr(b).metadata.save_count
    ELSE 0

\* The largest save_count the field holds (u32::MAX at the model's width).
U32_MAX == 2^CountBits - 1

\* Overflow checks on (a debug build: the addition panics) or off (a release
\* build: it wraps).
Builds == {"debug", "release"}

\* self.get_save_count()? + 1, in wrapping u32 arithmetic.
NextSaveCount(c) == (c + 1) % (2^CountBits)

\* MigrateData returning a new tracker instead of the envelope's data.
MigrateDataFresh(e) == Empty

\* migrate_data: stamps its own copy of the envelope and returns the data.
MigrateData(e) == e.data

(* ------------------------- results and locals -------------------------- *)

Ok(v) == [ok |-> TRUE, val |-> v, err |-> "none"]
Err(why) == [ok |-> FALSE, val |-> Empty, err |-> why]
NoRet == [ok |-> FALSE, val |-> Empty, err |-> "pending"]

IdleLoc ==
    [pc |-> "idle", op |-> "none", arg |-> Empty, pre |-> NoFile, stamp |-> 0,
     src |-> NoFile, victims |-> <<>>, cnt |-> 0, tmp |-> NoFile, ret |-> NoRet,
     fault |-> "none"]

\* What the last save left behind: how it ended (saved, failed, crashed),
\* the primary file P it found, the record set R it was given, and n, the saves that have succeeded since the directory was new (-1 once
\* someone else has overwritten the primary file).
NoLast == [kind |-> "none", P |-> NoFile, R |-> Empty, n |-> 0]
Overwritten == [NoLast EXCEPT !.n = -1]


(* -------------------------- control transfer --------------------------- *)

Set(p, l) == loc' = [loc EXCEPT ![p] = l]

\* The operation of p returns r; a save leaves its outcome in last.
Finish(p, l, r) ==
    /\ Set(p, [l EXCEPT !.pc = "done", !.ret = r, !.src = NoFile,
                        !.victims = <<>>, !.tmp = NoFile])
    /\ last' = IF l.op = "save"
               THEN [kind |-> IF r.ok THEN "saved" ELSE "failed", P |-> l.pre, R |-> l.arg,
                     n |-> IF r.ok /\ last.n >= 0 THEN last.n + 1 ELSE last.n]
               ELSE last

\* backup_file returned Ok(()): save goes on to build the envelope, load
\* returns the empty tracker (line 235).
AfterBackup(p, l) ==
    IF l.op = "save"
    THEN Set(p, [l EXCEPT !.pc = "s_count", !.src = NoFile, !.victims = <<>>]) /\ UNCHANGED last
    ELSE Finish(p, l, Ok(Empty))

Idle(P) == \A q \in P : loc[q].pc = "idle"

(* ------------------------------- save ---------------------------------- *)

\* pub fn save(&self, tracker: &DividendTracker)
SaveCall(p, R) ==
    /\ loc[p].pc = "idle"
    /\ ops < MaxOps
    /\ ops' = ops + 1
    /\ Set(p, [IdleLoc EXCEPT !.pc = "s_mkdata", !.op = "save", !.arg = R, !.pre = primary])
    /\ UNCHANGED <<dataDir, bakDir, primary, backups, now, holdingsFile, last>>

\* fs::create_dir_all(&self.data_dir)
EnsureDataDir(p) ==
    /\ loc[p].pc = "s_mkdata"
    /\ dataDir' = TRUE
    /\ Set(p, [loc[p] EXCEPT !.pc = "s_mkbak"])
    /\ UNCHANGED <<bakDir, primary, backups, now, holdingsFile, last, ops>>

\* fs::create_dir_all(&self.backup_dir)
EnsureBackupDir(p) ==
    /\ loc[p].pc = "s_mkbak"
    /\ bakDir' = TRUE
    /\ Set(p, [loc[p] EXCEPT !.pc = "b_check"])
    /\ UNCHANGED <<dataDir, primary, backups, now, holdingsFile, last, ops>>

(* ---------------------------- backup_file ------------------------------ *)

\* if !file_path.exists() { return Ok(()) }; the name takes the clock's second.
BackupFileCheck(p) ==
    /\ loc[p].pc = "b_check"
    /\ IF primary = NoFile
       THEN AfterBackup(p, loc[p])
       ELSE Set(p, [loc[p] EXCEPT !.pc = "b_open", !.stamp = now]) /\ UNCHANGED last
    /\ UNCHANGED <<dataDir, bakDir, primary, backups, now, holdingsFile, ops>>

\* fs::copy, first half: the source is opened, the destination is created or
\* truncated.  It fails when the backup directory does not exist.
CopyOpen(p) ==
    /\ loc[p].pc = "b_open"
    /\ IF ~bakDir
       THEN Finish(p, loc[p], Err("ENOENT")) /\ UNCHANGED backups
       ELSE /\ backups' = WriteBackup(backups, BackupName("dividends", loc[p].stamp), <<>>)
            /\ Set(p, [loc[p] EXCEPT !.pc = "b_write", !.src = primary])
            /\ UNCHANGED last
    /\ UNCHANGED <<dataDir, bakDir, primary, now, holdingsFile, ops>>

\* fs::copy, second half: the bytes go over one write at a time; after the
\* last one backup_file calls cleanup_old_backups.
CopyWrite(p) ==
    /\ loc[p].pc = "b_write"
    /\ LET name == BackupName("dividends", loc[p].stamp)
           have == Len(BytesOf(backups, name))
           more == Take(loc[p].src, have + ChunkLen)
       IN  /\ backups' = WriteBackup(backups, name, more)
           /\ Set(p, [loc[p] EXCEPT !.pc = IF more = loc[p].src THEN "c_list" ELSE "b_write"])
    /\ UNCHANGED <<dataDir, bakDir, primary, now, holdingsFile, last, ops>>

(* ------------------------- cleanup_old_backups ------------------------- *)

\* CleanupList of a backup_file that leaves the pruning for later.
CleanupListLater(p) ==
    /\ loc[p].pc = "c_list"
    /\ AfterBackup(p, loc[p])
    /\ UNCHANGED <<dataDir, bakDir, primary, backups, now, holdingsFile, ops>>

\* fs::read_dir(&self.backup_dir)?, the filter, the sort and the slice.
CleanupList(p) ==
    /\ loc[p].pc = "c_list"
    /\ IF ~bakDir
       THEN Finish(p, loc[p], Err("ENOENT"))
       ELSE LET v == Victims(backups, "dividends")
            IN  IF v = <<>>
                THEN AfterBackup(p, loc[p])
                ELSE Set(p, [loc[p] EXCEPT !.pc = "c_rm", !.victims = v]) /\ UNCHANGED last
    /\ UNCHANGED <<dataDir, bakDir, primary, backups, now, holdingsFile, ops>>

\* fs::remove_file(backup)? for the next entry of the slice.
CleanupRemove(p) ==
    /\ loc[p].pc = "c_rm"
    /\ LET name == Head(loc[p].victims)
           rest == Tail(loc[p].victims)
       IN  IF ~HasBackup(backups, name)
           THEN Finish(p, loc[p], Err("ENOENT")) /\ UNCHANGED backups
           ELSE /\ backups' = RemoveBackup(backups, name)
                /\ IF rest = <<>>
                   THEN AfterBackup(p, loc[p])
                   ELSE Set(p, [loc[p] EXCEPT !.victims = rest]) /\ UNCHANGED last
    /\ UNCHANGED <<dataDir, bakDir, primary, now, holdingsFile, ops>>

(* ---------------------- get_save_count, atomic_write ------------------- *)

\* GetSaveCount that never looks at the file it is about to replace.
GetSaveCountBlind(p) ==
    /\ loc[p].pc = "s_count"
    /\ Set(p, [loc[p] EXCEPT !.pc = "w_create", !.cnt = NextSaveCount(0)])
    /\ UNCHANGED <<dataDir, bakDir, primary, backups, now, holdingsFile, last, ops>>

\* save_count: self.get_save_count()? + 1.  At u32::MAX the addition
\* overflows: the thread panics or the sum wraps to 0, by the build.
GetSaveCount(p) ==
    /\ loc[p].pc = "s_count"
    /\ \E build \in Builds :
          IF SaveCountOf(primary) = U32_MAX /\ build = "debug"
          THEN Finish(p, loc[p], Err("overflow"))
          ELSE /\ Set(p, [loc[p] EXCEPT !.pc = "w_create",
                                        !.cnt = NextSaveCount(SaveCountOf(primary))])
               /\ UNCHANGED last
    /\ UNCHANGED <<dataDir, bakDir, primary, backups, now, holdingsFile, ops>>

\* Json that keeps the schema_version of the envelope the save found.
JsonStampedAsFound(l) ==
    Serialize([PersistedData(l.arg, l.cnt) EXCEPT
                  !.schema_version = IF IsUtf8(l.pre) /\ IsEnvelope(l.pre)
                                     THEN FromStr(l.pre).schema_version
                                     ELSE SCHEMA_VERSION])

\* The bytes save hands to atomic_write.
Json(l) == Serialize(PersistedData(l.arg, l.cnt))

\* TempCreate with the file created at the target path itself
\* (File::create(path)), which truncates the target.
TempCreateAtTarget(p) ==
    /\ loc[p].pc = "w_create"
    /\ primary' = <<>>
    /\ Set(p, [loc[p] EXCEPT !.pc = "w_write", !.tmp = <<>>])
    /\ UNCHANGED <<dataDir, bakDir, backups, now, holdingsFile, last, ops>>

\* NamedTempFile::new_in(parent): an empty file under a fresh name.
TempCreate(p) ==
    /\ loc[p].pc = "w_create"
    /\ IF ~dataDir
       THEN Finish(p, loc[p], Err("ENOENT"))
       ELSE Set(p, [loc[p] EXCEPT !.pc = "w_write", !.tmp = <<>>]) /\ UNCHANGED last
    /\ UNCHANGED <<dataDir, bakDir, primary, backups, now, holdingsFile, ops>>

\* TempWrite with every write call going to the target path as well.
TempWriteInPlace(p) ==
    /\ loc[p].pc = "w_write"
    /\ LET more == Take(Json(loc[p]), Len(loc[p].tmp) + ChunkLen)
       IN  /\ primary' = more
           /\ Set(p, [loc[p] EXCEPT !.tmp = more,
                                    !.pc = IF more = Json(loc[p]) THEN "w_flush" ELSE "w_write"])
    /\ UNCHANGED <<dataDir, bakDir, backups, now, holdingsFile, last, ops>>

\* temp_file.write_all(content): one write call.
TempWrite(p) ==
    /\ loc[p].pc = "w_write"
    /\ LET more == Take(Json(loc[p]), Len(loc[p].tmp) + ChunkLen)
       IN  Set(p, [loc[p] EXCEPT !.tmp = more,
                                 !.pc = IF more = Json(loc[p]) THEN "w_flush" ELSE "w_write"])
    /\ UNCHANGED <<dataDir, bakDir, primary, backups, now, holdingsFile, last, ops>>

\* temp_file.flush()
TempFlush(p) ==
    /\ loc[p].pc = "w_flush"
    /\ Set(p, [loc[p] EXCEPT !.pc = "w_persist"])
    /\ UNCHANGED <<dataDir, bakDir, primary, backups, now, holdingsFile, last, ops>>

\* Persist of a save that moved the records out of the caller's tracker
\* (std::mem::take on a &mut) instead of cloning it.
PersistTakes(p) ==
    /\ loc[p].pc = "w_persist"
    /\ primary' = loc[p].tmp
    /\ Finish(p, [loc[p] EXCEPT !.arg = Empty], Ok(Empty))
    /\ UNCHANGED <<dataDir, bakDir, backups, now, holdingsFile, ops>>

\* Persist of an envelope whose count is taken from the file being replaced
\* at the moment of the rename.
PersistRecounted(p) ==
    /\ loc[p].pc = "w_persist"
    /\ primary' = Serialize(PersistedData(loc[p].arg, NextSaveCount(SaveCountOf(primary))))
    /\ Finish(p, loc[p], Ok(Empty))
    /\ UNCHANGED <<dataDir, bakDir, backups, now, holdingsFile, ops>>

\* temp_file.persist(path): rename onto the target; save returns Ok(()).
Persist(p) ==
    /\ loc[p].pc = "w_persist"
    /\ primary' = loc[p].tmp
    /\ Finish(p, loc[p], Ok(Empty))
    /\ UNCHANGED <<dataDir, bakDir, backups, now, holdingsFile, ops>>

(* ------------------------------- load ---------------------------------- *)

\* pub fn load(&self)
LoadCall(p) ==
    /\ loc[p].pc = "idle"
    /\ ops < MaxOps
    /\ ops' = ops + 1
    /\ Set(p, [IdleLoc EXCEPT !.pc = "l_exists", !.op = "load", !.pre = primary])
    /\ UNCHANGED <<dataDir, bakDir, primary, backups, now, holdingsFile, last>>

\* LoadExists without the test: load goes straight to read_to_string.
LoadExistsUnchecked(p) ==
    /\ loc[p].pc = "l_exists"
    /\ Set(p, [loc[p] EXCEPT !.pc = "l_read"])
    /\ UNCHANGED <<dataDir, bakDir, primary, backups, now, holdingsFile, last, ops>>

\* if !file_path.exists() { return Ok(DividendTracker::new()) }
LoadExists(p) ==
    /\ loc[p].pc = "l_exists"
    /\ IF primary = NoFile
       THEN Finish(p, loc[p], Ok(Empty))
       ELSE Set(p, [loc[p] EXCEPT !.pc = "l_read"]) /\ UNCHANGED last
    /\ UNCHANGED <<dataDir, bakDir, primary, backups, now, holdingsFile, ops>>

\* LoadRead of a load that writes the envelope back with the current
\* schema_version before it returns the data.
LoadReadUpgrading(p) ==
    /\ loc[p].pc = "l_read"
    /\ primary # NoFile /\ IsUtf8(primary) /\ IsEnvelope(primary)
    /\ primary' = Serialize([FromStr(primary) EXCEPT !.schema_version = SCHEMA_VERSION])
    /\ Finish(p, loc[p], Ok(FromStr(primary).data))
    /\ UNCHANGED <<dataDir, bakDir, backups, now, holdingsFile, ops>>

\* read_to_string, from_str and the match on its result (lines 220-246).
LoadRead(p) ==
    /\ loc[p].pc = "l_read"
    /\ IF primary = NoFile
       THEN Finish(p, loc[p], Err("ENOENT"))
       ELSE IF ~IsUtf8(primary)
       THEN Finish(p, loc[p], Err("InvalidData"))
       ELSE IF IsEnvelope(primary)
       THEN LET e == FromStr(primary)
            IN  Finish(p, loc[p], Ok(IF e.schema_version # SCHEMA_VERSION
                                     THEN MigrateData(e) ELSE e.data))
       ELSE Set(p, [loc[p] EXCEPT !.pc = "b_check"]) /\ UNCHANGED last
    /\ UNCHANGED <<dataDir, bakDir, primary, backups, now, holdingsFile, ops>>

\* The caller takes the result.
Return(p) ==
    /\ loc[p].pc = "done"
    /\ Set(p, IdleLoc)
    /\ UNCHANGED <<dataDir, bakDir, primary, backups, now, holdingsFile, last, ops>>

(* --------------------------- the environment --------------------------- *)

\* The steps whose io::Result the code propagates with `?`.
Fallible ==
    {"s_mkdata", "s_mkbak", "b_open", "b_write", "c_list", "c_rm",
     "w_create", "w_write", "w_flush", "w_persist", "l_read"}

\* A filesystem call fails (permission denied, disk full): the error goes
\* to the caller (fault keeps the step); the NamedTempFile is dropped, which
\* removes it.
IoFault(p) ==
    /\ loc[p].pc \in Fallible
    /\ Finish(p, [loc[p] EXCEPT !.fault = loc[p].pc], Err("EIO"))
    /\ UNCHANGED <<dataDir, bakDir, primary, backups, now, holdingsFile, ops>>

\* cleanup_old_backups cannot read the modification time of one entry: the
\* sort goes on with the key None for it, and no error is returned.
MtimeUnreadable(p) ==
    /\ loc[p].pc = "c_list"
    /\ bakDir
    /\ \E i \in 1..Len(backups) :
         /\ backups[i].base = "dividends"
         /\ LET v == VictimsUnreadable(backups, "dividends", NameOf(backups[i]))
                l == [loc[p] EXCEPT !.fault = "c_sort"]
            IN  IF v = <<>>
                THEN AfterBackup(p, l)
                ELSE Set(p, [l EXCEPT !.pc = "c_rm", !.victims = v]) /\ UNCHANGED last
    /\ UNCHANGED <<dataDir, bakDir, primary, backups, now, holdingsFile, ops>>

\* get_save_count's read fails: .ok() turns the error into a count of 0.
SaveCountUnreadable(p) ==
    /\ loc[p].pc = "s_count"
    /\ primary # NoFile
    /\ Set(p, [loc[p] EXCEPT !.pc = "w_create", !.cnt = NextSaveCount(0)])
    /\ UNCHANGED <<dataDir, bakDir, primary, backups, now, holdingsFile, last, ops>>

\* The process dies between two steps, or before its caller has looked at
\* the result; its temporary file stays behind under a name no operation opens.
Crash(p) ==
    /\ loc[p].pc # "idle"
    /\ Set(p, IdleLoc)
    /\ last' = IF loc[p].op = "save"
               THEN [kind |-> "crashed", P |-> loc[p].pre, R |-> loc[p].arg, n |-> last.n]
               ELSE last
    /\ UNCHANGED <<dataDir, bakDir, primary, backups, now, holdingsFile, ops>>

\* The wall clock reaches the next second.  An operation reads the clock
\* once (line 109), so a tick during an operation is a tick before or after it.
Tick ==
    /\ Idle(Procs)
    /\ now < MAX_BACKUPS + 1 + MaxTicks
    /\ now' = now + 1
    /\ UNCHANGED <<dataDir, bakDir, primary, holdingsFile, backups, loc, last, ops>>

\* Someone else overwrites the primary file (fs::write(&file_path, ...) of
\* test_corrupted_json_handling), between two operations.
ExternalWrite(g) ==
    /\ Idle(Procs)
    /\ dataDir
    /\ primary # g
    /\ primary' = g
    /\ last' = Overwritten
    /\ UNCHANGED <<dataDir, bakDir, backups, now, holdingsFile, loc, ops>>

(* ----------------------------- initial states -------------------------- *)

\* The directory after one complete save(R) at second t (lines 182-209).
SaveFS(fs, R, t) ==
    LET copied == IF fs.primary = NoFile THEN fs.backups
                  ELSE WriteBackup(fs.backups, BackupName("dividends", t), fs.primary)
        gone   == Victims(copied, "dividends")
        Kept(e) == \A i \in 1..Len(gone) : gone[i] # NameOf(e)
    IN  [dataDir |-> TRUE, bakDir |-> TRUE,
         primary |-> Serialize(PersistedData(R, NextSaveCount(SaveCountOf(fs.primary)))),
         backups |-> SelectSeq(copied, Kept)]

\* PersistenceManager::with_custom_path on a path nobody has created.
AbsentDir == [dataDir |-> FALSE, bakDir |-> FALSE, primary |-> NoFile, backups |-> <<>>]
\* TempDir::new(): the data directory exists and is empty.
EmptyDir == [dataDir |-> TRUE, bakDir |-> FALSE, primary |-> NoFile, backups |-> <<>>]

SeedRecord(k) ==
    IF k % 2 = 1 THEN [dividends |-> <<1, 2>>, holdings |-> Aapl]
    ELSE Empty

\* The directory after k saves in the seconds 1..k, from nothing.
RECURSIVE AfterSaves(_)
AfterSaves(k) == IF k = 0 THEN AbsentDir ELSE SaveFS(AfterSaves(k - 1), SeedRecord(k), k)

SeedSaves == {0, MAX_BACKUPS + 1}

InitFS(fs, l) ==
    /\ dataDir = fs.dataDir
    /\ bakDir = fs.bakDir
    /\ primary = fs.primary
    /\ holdingsFile = NoFile
    /\ backups = fs.backups
    /\ now = MAX_BACKUPS + 1
    /\ loc = [p \in Procs |-> IdleLoc]
    /\ last = l
    /\ ops = 0

Init ==
    \/ InitFS(EmptyDir, NoLast)
    \/ \E k \in SeedSaves :
         InitFS(AfterSaves(k),
                IF k = 0 THEN NoLast
                ELSE [kind |-> "saved", P |-> AfterSaves(k - 1).primary, R |-> SeedRecord(k),
                      n |-> k])

(* ------------------- the derived operations, each whole ------------------ *)

\* The directory as one value.
Disk ==
    [dataDir |-> dataDir, bakDir |-> bakDir, primary |-> primary,
     holdingsFile |-> holdingsFile, backups |-> backups]

SetDisk(fs) ==
    /\ dataDir' = fs.dataDir
    /\ bakDir' = fs.bakDir
    /\ primary' = fs.primary
    /\ holdingsFile' = fs.holdingsFile
    /\ backups' = fs.backups

\* serde_json::to_string_pretty(&holdings): the bare map, no envelope.
SerializeMap(H) == << <<"open", 0>>, <<"entries", H>>, <<"close", 0>> >>

\* serde_json::from_str::<HashMap<String, Holding>>
IsMap(b) ==
    /\ Len(b) = 3
    /\ b[1] = <<"open", 0>>
    /\ b[2][1] = "entries"
    /\ b[3] = <<"close", 0>>

FromStrMap(b) == b[2][2]

\* An envelope as an earlier release of the engine wrote it.
OlderEnvelope(R, c) ==
    Serialize([PersistedData(R, c) EXCEPT !.schema_version = SCHEMA_VERSION - 1])

OlderEnvelopes == {OlderEnvelope(R, 1) : R \in RecordSets}

\* An envelope as a later release of the engine would write it.
NewerEnvelope(R, c) ==
    Serialize([PersistedData(R, c) EXCEPT !.schema_version = SCHEMA_VERSION + 1])

NewerEnvelopes == {NewerEnvelope(R, 1) : R \in RecordSets}

\* ensure_directories
EnsureDirectories(fs) == [fs EXCEPT !.dataDir = TRUE, !.bakDir = TRUE]

\* backup_file(path) at second t, for the file <base>.json holding bytes:
\* the copy, then cleanup_old_backups(<base>).
BackupFile(fs, base, bytes, t) ==
    IF bytes = NoFile THEN [ok |-> TRUE, fs |-> fs]
    ELSE IF ~fs.bakDir THEN [ok |-> FALSE, fs |-> fs]
    ELSE LET copied == WriteBackup(fs.backups, BackupName(base, t), bytes)
             gone   == Victims(copied, base)
             Kept(e) == \A i \in 1..Len(gone) : gone[i] # NameOf(e)
         IN  [ok |-> TRUE, fs |-> [fs EXCEPT !.backups = SelectSeq(copied, Kept)]]

\* load, whole: what it returns and the directory it leaves.
LoadFS(fs, t) ==
    IF fs.primary = NoFile THEN [ret |-> Ok(Empty), fs |-> fs]
    ELSE IF ~IsUtf8(fs.primary) THEN [ret |-> Err("InvalidData"), fs |-> fs]
    ELSE IF IsEnvelope(fs.primary)
    THEN LET e == FromStr(fs.primary)
         IN  [ret |-> Ok(IF e.schema_version # SCHEMA_VERSION THEN MigrateData(e) ELSE e.data),
              fs |-> fs]
    ELSE LET b == BackupFile(fs, "dividends", fs.primary, t)
         IN  [ret |-> IF b.ok THEN Ok(Empty) ELSE Err("ENOENT"), fs |-> b.fs]

\* save, whole, on a directory that has holdings.json as well.
SaveOn(fs, R, t) ==
    LET s == SaveFS(fs, R, t)
    IN  [fs EXCEPT !.dataDir = s.dataDir, !.bakDir = s.bakDir,
                   !.primary = s.primary, !.backups = s.backups]

\* save_holdings: holdings.json is backed up and replaced by the bare map.
SaveHoldingsFS(fs, H, t) ==
    LET b == BackupFile(EnsureDirectories(fs), "holdings", fs.holdingsFile, t)
    IN  [ret |-> Ok(Empty), fs |-> [b.fs EXCEPT !.holdingsFile = SerializeMap(H)]]

\* load_holdings: reads holdings.json, never the envelope.
LoadHoldingsFS(fs, t) ==
    IF fs.holdingsFile = NoFile THEN [ret |-> Ok(<<>>), fs |-> fs]
    ELSE IF ~IsUtf8(fs.holdingsFile) THEN [ret |-> Err("InvalidData"), fs |-> fs]
    ELSE IF IsMap(fs.holdingsFile) THEN [ret |-> Ok(FromStrMap(fs.holdingsFile)), fs |-> fs]
    ELSE LET b == BackupFile(fs, "holdings", fs.holdingsFile, t)
         IN  [ret |-> IF b.ok THEN Ok(<<>>) ELSE Err("ENOENT"), fs |-> b.fs]

\* SaveDividendsFS on a new tracker instead of the loaded one.
SaveDividendsFresh(fs, D, t1, t2) ==
    [ret |-> Ok(Empty),
     fs |-> SaveOn(EnsureDirectories(fs), [Empty EXCEPT !.dividends = D], t2)]

\* save_dividends: load (clock read at t1), replace the dividends, save
\* (clock read at t2).
SaveDividendsFS(fs, D, t1, t2) ==
    LET l == LoadFS(EnsureDirectories(fs), t1)
    IN  IF ~l.ret.ok THEN l
        ELSE [ret |-> Ok(Empty),
              fs |-> SaveOn(l.fs, [l.ret.val EXCEPT !.dividends = D], t2)]

\* load_dividends
LoadDividendsFS(fs, t) ==
    LET l == LoadFS(fs, t)
    IN  IF ~l.ret.ok THEN l ELSE [ret |-> Ok(l.ret.val.dividends), fs |-> l.fs]

\* fs::metadata(..).len() of a file that exists, 0 otherwise.
SizeOf(b) == IF b = NoFile THEN 0 ELSE Len(b)

\* GetStatsFS without ensure_directories: read_dir of a backup directory
\* that does not exist fails.
GetStatsNoEnsure(fs, t) ==
    LET l == LoadFS(fs, t)
    IN  IF ~l.ret.ok THEN l
        ELSE IF ~l.fs.bakDir THEN [ret |-> Err("ENOENT"), fs |-> l.fs]
        ELSE [ret |-> Ok([dividend_count |-> Len(l.ret.val.dividends),
                          holding_count |-> Cardinality(DOMAIN l.ret.val.holdings),
                          total_size_bytes |-> SizeOf(l.fs.primary) + SizeOf(l.fs.holdingsFile),
                          backup_count |-> Len(l.fs.backups)]),
              fs |-> l.fs]

\* get_stats: ensure_directories, load, the two sizes, the .bak entries.
GetStatsFS(fs, t) ==
    LET l == LoadFS(EnsureDirectories(fs), t)
    IN  IF ~l.ret.ok THEN l
        ELSE [ret |-> Ok([dividend_count |-> Len(l.ret.val.dividends),
                          holding_count |-> Cardinality(DOMAIN l.ret.val.holdings),
                          total_size_bytes |-> SizeOf(l.fs.primary) + SizeOf(l.fs.holdingsFile),
                          backup_count |-> Len(l.fs.backups)]),
              fs |-> l.fs]

\* The maps and sequences a caller passes to the derived operations.
HoldingMaps == {R.holdings : R \in RecordSets}
DividendSeqs == {R.dividends : R \in RecordSets}

\* p has called a derived operation and it has run to its return.
Ran(p, op, arg, r) ==
    /\ loc[p].pc = "idle"
    /\ ops < MaxOps
    /\ ops' = ops + 1
    /\ SetDisk(r.fs)
    /\ Set(p, [IdleLoc EXCEPT !.pc = "done", !.op = op, !.arg = arg, !.pre = primary,
                              !.ret = r.ret])

\* What a derived save leaves in last: R is its argument, the other half empty.
Left(kind, R, r) ==
    [kind |-> IF r.ret.ok THEN kind ELSE "failed", P |-> primary, R |-> R,
     n |-> IF r.ret.ok /\ kind = "saved_dividends" /\ last.n >= 0 THEN last.n + 1 ELSE last.n]

\* pub fn save_holdings(&self, holdings: &HashMap<String, Holding>)
SaveHoldings(p, H) ==
    LET r == SaveHoldingsFS(Disk, H, now)
        arg == [Empty EXCEPT !.holdings = H]
    IN  /\ Ran(p, "save_holdings", arg, r)
        /\ last' = Left("saved_holdings", arg, r)
        /\ UNCHANGED now

\* pub fn load_holdings(&self)
LoadHoldings(p) ==
    /\ Ran(p, "load_holdings", Empty, LoadHoldingsFS(Disk, now))
    /\ UNCHANGED <<now, last>>

\* pub fn save_dividends(&self, dividends: &[Dividend]); the clock may reach
\* the next second between its load and its save.
SaveDividends(p, D) ==
    \E dt \in 0..1 :
        LET r == SaveDividendsFS(Disk, D, now, now + dt)
            arg == [Empty EXCEPT !.dividends = D]
        IN  /\ now + dt <= MAX_BACKUPS + 1 + MaxTicks
            /\ Ran(p, "save_dividends", arg, r)
            /\ last' = Left("saved_dividends", arg, r)
            /\ now' = now + dt

\* pub fn load_dividends(&self)
LoadDividends(p) ==
    /\ Ran(p, "load_dividends", Empty, LoadDividendsFS(Disk, now))
    /\ UNCHANGED <<now, last>>

\* pub fn get_stats(&self)
GetStats(p) ==
    /\ Ran(p, "get_stats", Empty, GetStatsFS(Disk, now))
    /\ UNCHANGED <<now, last>>

(* ---------------------- models.rs: Dividend::new ------------------------ *)

\* A String is a sequence of characters; char::is_whitespace and
\* char::to_uppercase on the characters in use.
IsSpace(c) == c \in {" ", "\t"}

ToUpper(c) ==
    CASE c = "a" -> "A"
      [] c = "p" -> "P"
      [] c = "l" -> "L"
      [] c = "m" -> "M"
      [] c = "s" -> "S"
      [] c = "f" -> "F"
      [] c = "t" -> "T"
      [] OTHER -> c

RECURSIVE TrimStart(_)
TrimStart(s) == IF s # <<>> /\ IsSpace(Head(s)) THEN TrimStart(Tail(s)) ELSE s

RECURSIVE TrimEnd(_)
TrimEnd(s) ==
    IF s # <<>> /\ IsSpace(s[Len(s)]) THEN TrimEnd(SubSeq(s, 1, Len(s) - 1)) ELSE s

\* str::trim
Trim(s) == TrimEnd(TrimStart(s))

\* str::to_uppercase
ToUppercase(s) == [i \in 1..Len(s) |-> ToUpper(s[i])]

\* rust_decimal::Decimal: the integer m scaled down by 10^scale.
Dec(m, scale) == [m |-> m, scale |-> scale]

RECURSIVE Pow10(_)
Pow10(k) == IF k = 0 THEN 1 ELSE 10 * Pow10(k - 1)

\* Decimal's comparisons rescale to a common scale.
DecLe(a, b) == a.m * Pow10(b.scale) <= b.m * Pow10(a.scale)
DecEq(a, b) == a.m * Pow10(b.scale) = b.m * Pow10(a.scale)

\* Decimal's Mul: mantissas multiply, scales add.
DecMul(a, b) == Dec(a.m * b.m, a.scale + b.scale)

\* Decimal::ZERO
DecZero == Dec(0, 0)

\* DividendNew with the date test written `pay_date <= ex_date`.
DividendNewStrictDates(symbol, ex_date, pay_date, amount_per_share, shares_owned) ==
    IF Trim(symbol) = <<>> THEN Err("Symbol cannot be empty")
    ELSE IF DecLe(amount_per_share, DecZero) THEN Err("Amount per share must be positive")
    ELSE IF DecLe(shares_owned, DecZero) THEN Err("Shares owned must be positive")
    ELSE IF pay_date <= ex_date THEN Err("Pay date cannot be before ex-dividend date")
    ELSE Ok([symbol |-> ToUppercase(Trim(symbol)), ex_date |-> ex_date, pay_date |-> pay_date,
             amount_per_share |-> amount_per_share, shares_owned |-> shares_owned,
             total_amount |-> DecMul(amount_per_share, shares_owned)])

\* Dividend::new (company_name and dividend_type are stored as given).
DividendNew(symbol, ex_date, pay_date, amount_per_share, shares_owned) ==
    IF Trim(symbol) = <<>> THEN Err("Symbol cannot be empty")
    ELSE IF DecLe(amount_per_share, DecZero) THEN Err("Amount per share must be positive")
    ELSE IF DecLe(shares_owned, DecZero) THEN Err("Shares owned must be positive")
    ELSE IF pay_date < ex_date THEN Err("Pay date cannot be before ex-dividend date")
    ELSE Ok([symbol |-> ToUppercase(Trim(symbol)), ex_date |-> ex_date, pay_date |-> pay_date,
             amount_per_share |-> amount_per_share, shares_owned |-> shares_owned,
             total_amount |-> DecMul(amount_per_share, shares_owned)])

\* The arguments the tests of models.rs use, and their neighbours.
Symbols ==
    {<<>>, <<" ">>, <<"\t", " ">>, <<"A", "A", "P", "L">>, <<" ", "a", "a", "p", "l", " ">>,
     <<"m", "s", " ", "f", "t">>}
Amounts == {Dec(94, 2), Dec(0, 0), Dec(0, 2), Dec(-94, 2), Dec(1, 3)}
Shares == {Dec(100, 0), Dec(0, 0), Dec(-1, 0), Dec(15, 1)}
Days == 1..MaxDay

\* A caller builds a Dividend.
CallDividendNew(p, symbol, ex_date, pay_date, amount_per_share, shares_owned) ==
    /\ loc[p].pc = "idle"
    /\ Set(p, [IdleLoc EXCEPT
                 !.pc = "done", !.op = "dividend_new",
                 !.arg = [symbol |-> symbol, ex_date |-> ex_date, pay_date |-> pay_date,
                          amount_per_share |-> amount_per_share,
                          shares_owned |-> shares_owned],
                 !.ret = DividendNew(symbol, ex_date, pay_date, amount_per_share,
                                     shares_owned)])
    /\ UNCHANGED <<dataDir, bakDir, primary, holdingsFile, backups, now, last, ops>>

\* A backup directory with n backups of dividends.json and h of
\* holdings.json, taken in the seconds 1..k.
RECURSIVE Crowd(_, _, _)
Crowd(k, n, h) ==
    IF k = 0 THEN <<>>
    ELSE Crowd(k - 1, n, h)
           \o (IF k <= n
               THEN <<[base |-> "dividends", stamp |-> k,
                       bytes |-> Serialize(PersistedData(SeedRecord(k), k))]>>
               ELSE <<>>)
           \o (IF k <= h
               THEN <<[base |-> "holdings", stamp |-> k,
                       bytes |-> SerializeMap(SeedRecord(k).holdings)]>>
               ELSE <<>>)

\* The directory after n + 1 saves and, when h > 0, h + 1 calls of
\* save_holdings, some of which died before they pruned; the primary file or
\* a first holdings.json may have been damaged since.
InitCrowded ==
    \E n \in 0..(MAX_BACKUPS + MaxExtra), h \in {0, MAX_BACKUPS} :
    \E damaged \in BOOLEAN, hdamaged \in BOOLEAN :
        /\ dataDir = TRUE
        /\ bakDir = TRUE
        /\ primary = IF damaged THEN NotJson
                     ELSE Serialize(PersistedData(SeedRecord(n + 1), n + 1))
        /\ holdingsFile = IF h = 0 THEN (IF hdamaged THEN NotJson ELSE NoFile)
                          ELSE SerializeMap(Aapl)
        /\ backups = Crowd(IF n > h THEN n ELSE h, n, h)
        /\ now = (IF n > h THEN n ELSE h) + 1
        /\ loc = [p \in Procs |-> IdleLoc]
        /\ last = Overwritten
        /\ ops = 0

\* Processes 1 and 2 have each just called save, of R1 and of R2, on a
\* directory whose primary file holds a valid envelope; process 3 is about to
\* load.  The clock is in the second of the newest backup or in the next one.
InitTrio ==
    \E k \in {1, MAX_BACKUPS + 1}, late \in BOOLEAN, R1 \in RecordSets, R2 \in RecordSets :
        LET fs == AfterSaves(k)
            Called(R) == [IdleLoc EXCEPT !.pc = "s_mkdata", !.op = "save", !.arg = R,
                                         !.pre = fs.primary]
        IN  /\ dataDir = fs.dataDir
            /\ bakDir = fs.bakDir
            /\ primary = fs.primary
            /\ holdingsFile = NoFile
            /\ backups = fs.backups
            /\ now = IF late THEN MAX_BACKUPS + 2 ELSE MAX_BACKUPS + 1
            /\ loc = [p \in Procs |-> IF p = 1 THEN Called(R1)
                                      ELSE IF p = 2 THEN Called(R2) ELSE IdleLoc]
            /\ last = NoLast
            /\ ops = 0

(* ---------------------------- specifications --------------------------- *)

Step(p) ==
    \/ EnsureDataDir(p)
    \/ EnsureBackupDir(p)
    \/ BackupFileCheck(p)
    \/ CopyOpen(p)
    \/ CopyWrite(p)
    \/ CleanupList(p)
    \/ CleanupRemove(p)
    \/ GetSaveCount(p)
    \/ TempCreate(p)
    \/ TempWrite(p)
    \/ TempFlush(p)
    \/ Persist(p)
    \/ LoadExists(p)
    \/ LoadRead(p)
    \/ Return(p)

Call(p) ==
    \/ \E R \in RecordSets : SaveCall(p, R)
    \/ LoadCall(p)

\* One process at a time, no failure of the machine or the filesystem.
NextQuiet ==
    \/ \E p \in SeqProcs : Idle(Procs) /\ Call(p)
    \/ \E p \in SeqProcs : Step(p)
    \/ Tick
    \/ \E g \in Garbage : ExternalWrite(g)

SpecQuiet == Init /\ [][NextQuiet]_vars

\* One process at a time; any step may fail, the process may die anywhere.
Next ==
    \/ NextQuiet
    \/ \E p \in SeqProcs : IoFault(p)
    \/ \E p \in SeqProcs : MtimeUnreadable(p)
    \/ \E p \in SeqProcs : SaveCountUnreadable(p)
    \/ \E p \in SeqProcs : Crash(p)

Spec == Init /\ [][Next]_vars


Derived(p) ==
    \/ \E H \in HoldingMaps : SaveHoldings(p, H)
    \/ LoadHoldings(p)
    \/ \E D \in DividendSeqs : SaveDividends(p, D)
    \/ LoadDividends(p)
    \/ GetStats(p)

\* One process at a time and no failure, with the derived operations and
\* with primary files left by an earlier release.
NextApi ==
    \/ NextQuiet
    \/ \E p \in SeqProcs : Idle(Procs) /\ Derived(p)
    \/ \E g \in OlderEnvelopes : ExternalWrite(g)

SpecApi == Init /\ [][NextApi]_vars

\* All operations of the engine, one process at a time and nobody else
\* writing; a step of save or load may return an I/O error and the process
\* may die.
NextApiFaults ==
    \/ \E p \in SeqProcs : Idle(Procs) /\ Call(p)
    \/ \E p \in SeqProcs : Idle(Procs) /\ Derived(p)
    \/ \E p \in SeqProcs : Step(p)
    \/ Tick
    \/ \E p \in SeqProcs : IoFault(p)
    \/ \E p \in SeqProcs : Crash(p)

SpecApiFaults == Init /\ [][NextApiFaults]_vars

\* Two processes, no locking: their calls and steps interleave freely.
NextRace ==
    \/ \E p \in RaceProcs : Call(p)
    \/ \E p \in RaceProcs : Step(p)
    \/ Tick

SpecRace == Init /\ [][NextRace]_vars

\* A process that builds Dividend records.
NextModels ==
    \/ \E symbol \in Symbols, ex_date \in Days, pay_date \in Days,
          amount_per_share \in Amounts, shares_owned \in Shares :
         CallDividendNew(1, symbol, ex_date, pay_date, amount_per_share, shares_owned)
    \/ Return(1)

SpecModels == InitFS(AbsentDir, NoLast) /\ [][NextModels]_vars

\* One operation, any of them, on a directory that has backups.
NextCrowded ==
    \/ \E p \in SeqProcs : ops = 0 /\ Call(p)
    \/ \E p \in SeqProcs : ops = 0 /\ Derived(p)
    \/ \E p \in SeqProcs : Step(p)
    \/ Tick

SpecCrowded == InitCrowded /\ [][NextCrowded]_vars

\* The two saves run to their return, step by step in any order, while
\* process 3 calls load, during the saves and after them.
NextTrio ==
    \/ \E p \in Procs : (p \in RaceProcs => loc[p].pc # "done") /\ Step(p)
    \/ LoadCall(3)

SpecTrio == InitTrio /\ [][NextTrio]_vars

\* A directory with ten backups whose primary file holds an envelope with
\* save_count at or just below the largest value of the field.
InitCounter ==
    \E c \in {U32_MAX - 1, U32_MAX}, R \in RecordSets :
        /\ dataDir = TRUE
        /\ bakDir = TRUE
        /\ primary = Serialize(PersistedData(R, c))
        /\ holdingsFile = NoFile
        /\ backups = Crowd(MAX_BACKUPS, MAX_BACKUPS, 0)
        /\ now = MAX_BACKUPS + 1
        /\ loc = [p \in Procs |-> IdleLoc]
        /\ last = Overwritten
        /\ ops = 0

NextCounter ==
    \/ \E p \in SeqProcs : Idle(Procs) /\ Call(p)
    \/ \E p \in SeqProcs : Step(p)
    \/ Tick

SpecCounter == InitCounter /\ [][NextCounter]_vars

\* save and load, one process at a time and no failure, on primary files left
\* by an earlier or by a later release of the engine.
NextVersions ==
    \/ \E p \in SeqProcs : Idle(Procs) /\ Call(p)
    \/ \E p \in SeqProcs : Step(p)
    \/ Tick
    \/ \E g \in OlderEnvelopes \cup NewerEnvelopes : ExternalWrite(g)

SpecVersions == Init /\ [][NextVersions]_vars

(* ------------------------------- claims -------------------------------- *)

Parses(b) == b # NoFile /\ IsUtf8(b) /\ IsEnvelope(b)

InAtomicWrite(p) == loc[p].pc \in {"w_create", "w_write", "w_flush", "w_persist"}

SaveDone(p) == loc[p].op = "save" /\ loc[p].pc = "done"
LoadDone(p) == loc[p].op = "load" /\ loc[p].pc = "done"

\* The contents a save of R on top of P can put at the primary path: the
\* envelope of R with P's count plus one, or with 1 when P was not read.
NewContents(P, R) ==
    {Serialize(PersistedData(R, c)) : c \in {NextSaveCount(SaveCountOf(P)), NextSaveCount(0)}}

(* C1: at every step of atomic_write (temporary file created, written      *)
(* partly or fully, flushed, renamed) the target path holds the complete   *)
(* previous content (or no file, if there was none) up to the rename and   *)
(* the complete new content after it, and after a crash at any step it     *)
(* holds one of the two: never a truncated or partial content.             *)
C1_AtomicWrite ==
    /\ \A p \in Procs :
         /\ InAtomicWrite(p) => primary = loc[p].pre
         /\ SaveDone(p) => primary \in {loc[p].pre, Json(loc[p])}
         /\ SaveDone(p) /\ loc[p].ret.ok => primary = Json(loc[p])
    /\ last.kind = "crashed" => primary \in {last.P} \cup NewContents(last.P, last.R)

\* The temporary file holds a proper, non-empty prefix of the new envelope
\* while the target still holds a previous envelope.
C1_Witness ==
    \E p \in Procs :
        /\ loc[p].pc = "w_write"
        /\ Len(loc[p].tmp) > 0
        /\ loc[p].tmp # Json(loc[p])
        /\ Parses(primary)
        /\ primary = loc[p].pre
        /\ primary # Json(loc[p])

(* C2: when a save(R) on a directory whose primary file holds a valid      *)
(* envelope of P has crashed at any of its steps, the next load returns    *)
(* without error and returns P or R, no empty or other record set.         *)
C2_CrashThenLoad ==
    \A p \in Procs :
        (LoadDone(p) /\ last.kind = "crashed" /\ Parses(last.P) /\ loc[p].fault = "none")
            => /\ loc[p].ret.ok
               /\ loc[p].ret.val \in {FromStr(last.P).data, last.R}

\* A load after a crashed save of another record set returns the old one.
C2_Witness ==
    \E p \in Procs :
        /\ LoadDone(p) /\ last.kind = "crashed" /\ Parses(last.P)
        /\ loc[p].ret = Ok(FromStr(last.P).data)
        /\ last.R # FromStr(last.P).data
        /\ FromStr(last.P).data # Empty

(* C3: round trip: after a successful save(R), whatever the directory held *)
(* before (nothing, a valid envelope, a corrupted primary file), load      *)
(* returns a record set equal to R: the same dividends in the same order   *)
(* and the same holdings.                                                  *)
C3_RoundTrip ==
    \A p \in Procs :
        (LoadDone(p) /\ last.kind = "saved" /\ loc[p].fault = "none")
            => /\ loc[p].ret.ok
               /\ loc[p].ret.val.dividends = last.R.dividends
               /\ loc[p].ret.val.holdings = last.R.holdings

\* The round trip over a primary file that was corrupted before the save.
C3_Witness ==
    \E p \in Procs :
        /\ LoadDone(p) /\ last.kind = "saved" /\ last.P \in Garbage
        /\ loc[p].ret = Ok(last.R)
        /\ last.R.holdings # <<>>


\* load found a primary file that exists and is no envelope.
FoundCorrupted(p) == LoadDone(p) /\ loc[p].pre # NoFile /\ ~Parses(loc[p].pre)

HoldsCopy(bs, bytes) ==
    \E i \in 1..Len(bs) : bs[i].base = "dividends" /\ bs[i].bytes = bytes

(* C4: whenever the primary file exists and does not deserialize as an     *)
(* envelope, load returns the empty record set and no error, whatever the  *)
(* rest of the data directory holds (also when the backup subdirectory     *)
(* has not been created yet).                                              *)
C4_CorruptedLoadsEmpty ==
    \A p \in Procs : FoundCorrupted(p) => loc[p].ret = Ok(Empty)

(* C5: when load finds a primary file that fails to deserialize, then on   *)
(* return the backup directory holds a file with exactly the corrupted     *)
(* bytes and the primary file still holds them.                            *)
C5_CorruptedPreserved ==
    \A p \in Procs :
        (FoundCorrupted(p) /\ IsUtf8(loc[p].pre))
            => HoldsCopy(backups, loc[p].pre) /\ primary = loc[p].pre

(* C6: load on a data directory with no primary file (a directory that     *)
(* does not exist, or an empty one) returns the empty record set, zero     *)
(* dividends and zero holdings, and no error.                              *)
C6_EmptyDefault ==
    \A p \in Procs :
        (LoadDone(p) /\ loc[p].pre = NoFile)
            => /\ loc[p].ret.ok
               /\ Len(loc[p].ret.val.dividends) = 0
               /\ DOMAIN loc[p].ret.val.holdings = {}

\* load has returned on a data directory that does not exist.
C6_Witness ==
    \E p \in Procs : LoadDone(p) /\ loc[p].pre = NoFile /\ ~dataDir /\ loc[p].ret.ok

(* C7: a save on a directory with no primary file leaves no backup; a save *)
(* on a directory whose primary file exists leaves, when it returns, a     *)
(* backup whose content is the primary file's content just before the      *)
(* save.  One save from a new directory: zero backups; two: at least one.  *)
(* (A save none of whose filesystem calls failed.)                         *)
C7_BackupOnOverwrite ==
    \A p \in Procs :
        (SaveDone(p) /\ loc[p].ret.ok /\ loc[p].fault = "none")
            => /\ loc[p].pre = NoFile => Len(backups) = 0
               /\ loc[p].pre # NoFile => HoldsCopy(backups, loc[p].pre)
               /\ last.n = 1 => Len(backups) = 0
               /\ last.n = 2 => Len(backups) >= 1

\* The second save from a new directory has returned: one backup, the
\* envelope the first save wrote.
C7_Witness ==
    \E p \in Procs :
        /\ SaveDone(p) /\ loc[p].ret.ok /\ last.n = 2
        /\ Len(backups) = 1
        /\ backups[1].bytes = loc[p].pre
        /\ Parses(loc[p].pre)

(* C8: after any sequence of completed saves and loads from a new          *)
(* directory, more than 10 saves included, the backup directory holds at   *)
(* most 10 files dividends_*.bak.                                          *)
C8_RetentionBound ==
    (\A p \in Procs : loc[p].pc \in {"idle", "done"})
        => Len(Matching(backups, "dividends")) <= MAX_BACKUPS

\* Twelve saves from a new directory have completed, ten backups are left.
C8_Witness ==
    /\ Idle(Procs)
    /\ last.n = MAX_BACKUPS + 2
    /\ Len(Matching(backups, "dividends")) = MAX_BACKUPS

(* C9: if a filesystem step of save(R) fails, save returns an error and    *)
(* the primary file still holds its complete content from before the save; *)
(* save returns success only when the primary file holds the new envelope  *)
(* of R.                                                                   *)
C9_SaveErrors ==
    \A p \in Procs :
        SaveDone(p)
            => /\ loc[p].fault # "none" => ~loc[p].ret.ok
               /\ ~loc[p].ret.ok => primary = loc[p].pre
               /\ loc[p].ret.ok => /\ Parses(primary)
                                   /\ FromStr(primary).schema_version = SCHEMA_VERSION
                                   /\ FromStr(primary).data = loc[p].arg

(* C10: every successful save writes the save_count of the primary file    *)
(* it replaces plus one, or 1 when that file is absent or cannot be read   *)
(* or parsed as an envelope; k successive saves from a new directory       *)
(* leave save_count = k.                                                   *)
C10_SaveCount ==
    /\ \A p \in Procs :
         (SaveDone(p) /\ loc[p].ret.ok)
            => /\ Parses(primary)
               /\ FromStr(primary).metadata.save_count =
                    IF Parses(loc[p].pre)
                    THEN FromStr(loc[p].pre).metadata.save_count + 1
                    ELSE 1
    /\ last.n > 0 => Parses(primary) /\ FromStr(primary).metadata.save_count = last.n

\* The second save from a new directory has returned and the count is 2.
C10_Witness ==
    \E p \in Procs :
        /\ SaveDone(p) /\ loc[p].ret.ok /\ last.n = 2
        /\ FromStr(primary).metadata.save_count = 2
        /\ FromStr(loc[p].pre).metadata.save_count = 1

\* b is an envelope stamped by an earlier release.
OlderStored(b) == Parses(b) /\ FromStr(b).schema_version < SCHEMA_VERSION

(* C11: after load returns for a primary file holding an envelope with a   *)
(* schema_version older than SCHEMA_VERSION, the envelope stored at the    *)
(* primary path carries SCHEMA_VERSION (it was upgraded in place); and     *)
(* every file save writes is an envelope with SCHEMA_VERSION.              *)
C11_UpgradedInPlace ==
    \A p \in Procs :
        /\ (LoadDone(p) /\ loc[p].ret.ok /\ OlderStored(loc[p].pre))
              => Parses(primary) /\ FromStr(primary).schema_version = SCHEMA_VERSION
        /\ (SaveDone(p) /\ loc[p].ret.ok)
              => Parses(primary) /\ FromStr(primary).schema_version = SCHEMA_VERSION

(* C12: load of a primary file whose envelope has a schema_version older   *)
(* than SCHEMA_VERSION returns no error and exactly the record set stored  *)
(* in that envelope, every dividend in order and every holding; the same   *)
(* envelope always yields the same record set.                             *)
C12_MigrationKeepsRecords ==
    \A p \in Procs :
        (LoadDone(p) /\ OlderStored(loc[p].pre))
            => /\ loc[p].ret.ok
               /\ loc[p].ret.val.dividends = FromStr(loc[p].pre).data.dividends
               /\ loc[p].ret.val.holdings = FromStr(loc[p].pre).data.holdings

\* load has returned two dividends and a holding from an older envelope.
C12_Witness ==
    \E p \in Procs :
        /\ LoadDone(p) /\ OlderStored(loc[p].pre)
        /\ loc[p].ret.ok
        /\ Len(loc[p].ret.val.dividends) = 2
        /\ DOMAIN loc[p].ret.val.holdings # {}

\* p's call of the derived operation op has returned.
RanDone(p, op) == loc[p].op = op /\ loc[p].pc = "done"

\* The holdings load returns for a primary file b (none when b is no envelope).
HoldingsIn(b) == IF Parses(b) THEN FromStr(b).data.holdings ELSE <<>>

(* C13: save_holdings(H) rewrites the envelope file with the loaded record *)
(* set whose holdings are replaced by H: after a successful                *)
(* save_holdings(H), load returns holdings equal to H and the dividends    *)
(* load returned before the call.                                          *)
C13_SaveHoldingsRewrites ==
    \A p \in Procs :
        /\ (RanDone(p, "save_holdings") /\ loc[p].ret.ok)
              => Parses(primary) /\ FromStr(primary).data.holdings = loc[p].arg.holdings
        /\ (LoadDone(p) /\ last.kind = "saved_holdings")
              => /\ loc[p].ret.ok
                 /\ loc[p].ret.val.holdings = last.R.holdings
                 /\ Parses(last.P) => loc[p].ret.val.dividends = FromStr(last.P).data.dividends

(* C14: in every state of the data directory load_holdings returns the     *)
(* holdings half of what load returns there; in particular after save(R)   *)
(* load_holdings returns R.holdings.                                       *)
C14_LoadHoldingsHalf ==
    \A p \in Procs :
        RanDone(p, "load_holdings")
            => /\ LoadFS(Disk, now).ret.ok
                    => /\ loc[p].ret.ok
                       /\ loc[p].ret.val = LoadFS(Disk, now).ret.val.holdings
               /\ last.kind = "saved" => loc[p].ret = Ok(last.R.holdings)

\* The names in the backup directory bs2 that bs did not have.
NewNames(bs, bs2) ==
    {NameOf(bs2[i]) : i \in 1..Len(bs2)} \ {NameOf(bs[i]) : i \in 1..Len(bs)}

C16_StatsReadOnly ==
    [][\A p \in Procs :
          (loc[p].pc = "idle" /\ RanDone(p, "get_stats")')
              => /\ primary' = primary
                 /\ holdingsFile' = holdingsFile
                 /\ backups' = backups]_vars

\* The dividends load returns for a primary file b.
DividendsIn(b) == IF Parses(b) THEN FromStr(b).data.dividends ELSE <<>>

(* C17: get_stats on a new install (no data directory, or an empty one)    *)
(* returns without error and reports 0 dividends, 0 holdings, 0 bytes and  *)
(* 0 backups; in general backup_count is the number of .bak files in the   *)
(* backup directory, dividend_count and holding_count are the sizes of     *)
(* what load returns, total_size_bytes the size of the two data files.     *)
C17_Stats ==
    \A p \in Procs :
        RanDone(p, "get_stats")
            => /\ (loc[p].pre = NoFile /\ holdingsFile = NoFile /\ Len(backups) = 0)
                    => loc[p].ret = Ok([dividend_count |-> 0, holding_count |-> 0,
                                        total_size_bytes |-> 0, backup_count |-> 0])
               /\ loc[p].ret.ok
                    => /\ loc[p].ret.val.backup_count = Len(backups)
                       /\ loc[p].ret.val.dividend_count = Len(DividendsIn(loc[p].pre))
                       /\ loc[p].ret.val.holding_count =
                            Cardinality(DOMAIN HoldingsIn(loc[p].pre))
                       /\ loc[p].ret.val.total_size_bytes =
                            SizeOf(primary) + SizeOf(holdingsFile)

\* get_stats, the first call on a directory nobody has written to, has
\* reported zeros and left the two directories behind.
C17_Witness ==
    \E p \in Procs :
        /\ RanDone(p, "get_stats")
        /\ ops = 1 /\ last = NoLast
        /\ loc[p].ret.ok
        /\ loc[p].ret.val.backup_count = 0
        /\ loc[p].ret.val.total_size_bytes = 0
        /\ dataDir /\ bakDir

(* C18: two processes running save at once on one data directory can race: *)
(* when both saves were called on the same primary file and both have      *)
(* returned success, the stored save_count is that file's count plus 1     *)
(* exactly when both read the count before either wrote (a lost            *)
(* increment), and plus 2 otherwise.                                       *)
C18_SaveCountRace ==
    \A p, q \in Procs :
        (p # q /\ SaveDone(p) /\ SaveDone(q) /\ loc[p].ret.ok /\ loc[q].ret.ok
              /\ loc[p].pre = loc[q].pre)
            => /\ loc[p].cnt = loc[q].cnt
                    => SaveCountOf(primary) = SaveCountOf(loc[p].pre) + 1
               /\ loc[p].cnt # loc[q].cnt
                    => SaveCountOf(primary) = SaveCountOf(loc[p].pre) + 2

\* Two saves on the envelope of the eleventh save have both succeeded and
\* the stored count is 12, not 13.
C18_Witness ==
    \E p, q \in Procs :
        /\ p # q /\ SaveDone(p) /\ SaveDone(q) /\ loc[p].ret.ok /\ loc[q].ret.ok
        /\ loc[p].pre = loc[q].pre
        /\ Parses(loc[p].pre)
        /\ SaveCountOf(loc[p].pre) = MAX_BACKUPS + 1
        /\ SaveCountOf(primary) = MAX_BACKUPS + 2

\* Some process is in the middle of the copy that creates backups/<name>.
BeingCopied(name) ==
    \E p \in Procs : loc[p].pc = "b_write" /\ BackupName("dividends", loc[p].stamp) = name

(* C19: a backup file is immutable: once it has been created, no step of   *)
(* any operation changes its content; it can only go away (by pruning),    *)
(* also when two backups are taken within the same clock second.           *)
C19_BackupImmutable ==
    [][\A i \in 1..Len(backups) :
          (~BeingCopied(NameOf(backups[i])) /\ HasBackup(backups', NameOf(backups[i])))
              => BytesOf(backups', NameOf(backups[i])) = backups[i].bytes]_vars

(* C20: save(R) never changes the caller's record set R: at every step of  *)
(* a save, up to and including its return with success or with an error,   *)
(* R has the dividends and holdings it had at the call; what a save        *)
(* changes is the primary file and the backup directory (holdings.json     *)
(* stays as it is).                                                        *)
C20_SaveKeepsTracker ==
    [][\A p \in Procs :
          (loc[p].op = "save" /\ loc'[p].op = "save")
              => /\ loc'[p].arg.dividends = loc[p].arg.dividends
                 /\ loc'[p].arg.holdings = loc[p].arg.holdings
                 /\ holdingsFile' = holdingsFile]_vars

\* A save of two dividends and a holding, on a directory that has a
\* holdings.json, has returned an error after it had made its backup.
C20_Witness ==
    \E p \in Procs :
        /\ SaveDone(p) /\ ~loc[p].ret.ok
        /\ loc[p].fault \in {"w_write", "w_persist"}
        /\ Len(loc[p].arg.dividends) = 2
        /\ DOMAIN loc[p].arg.holdings = {"AAPL"}
        /\ HoldsCopy(backups, loc[p].pre)
        /\ holdingsFile # NoFile

DividendNewDone(p) == loc[p].op = "dividend_new" /\ loc[p].pc = "done"

\* The symbol has a character that is not whitespace.
HasVisible(symbol) == \E i \in 1..Len(symbol) : ~IsSpace(symbol[i])

(* C21: Dividend::new returns an error exactly when the trimmed symbol is  *)
(* empty, amount_per_share <= 0, shares_owned <= 0 or pay_date < ex_date;  *)
(* on success the symbol is trimmed and upper-cased and total_amount is    *)
(* amount_per_share * shares_owned (0.94 * 100 = 94).                      *)
C21_DividendNew ==
    \A p \in Procs :
        DividendNewDone(p)
            => LET a == loc[p].arg
                   r == loc[p].ret
               IN  /\ ~r.ok <=> \/ ~HasVisible(a.symbol)
                                \/ a.amount_per_share.m <= 0
                                \/ a.shares_owned.m <= 0
                                \/ a.pay_date < a.ex_date
                   /\ r.ok => /\ HasVisible(<<Head(r.val.symbol)>>)
                              /\ HasVisible(<<r.val.symbol[Len(r.val.symbol)]>>)
                              /\ \A i \in 1..Len(r.val.symbol) :
                                    r.val.symbol[i] \notin {"a", "p", "l", "m", "s", "f", "t"}
                              /\ r.val.total_amount.m * Pow10(a.amount_per_share.scale)
                                     * Pow10(a.shares_owned.scale)
                                   = a.amount_per_share.m * a.shares_owned.m
                                       * Pow10(r.val.total_amount.scale)
                   /\ (r.ok /\ a.amount_per_share = Dec(94, 2) /\ a.shares_owned = Dec(100, 0))
                        => DecEq(r.val.total_amount, Dec(94, 0))
                   /\ (r.ok /\ a.symbol = <<" ", "a", "a", "p", "l", " ">>)
                        => r.val.symbol = <<"A", "A", "P", "L">>

\* Dividend::new(" aapl ", ex = pay, 0.94, 100) has returned AAPL and 94.
C21_Witness ==
    \E p \in Procs :
        /\ DividendNewDone(p)
        /\ loc[p].arg.symbol = <<" ", "a", "a", "p", "l", " ">>
        /\ loc[p].arg.pay_date = loc[p].arg.ex_date
        /\ loc[p].ret.ok
        /\ loc[p].ret.val.symbol = <<"A", "A", "P", "L">>
        /\ DecEq(loc[p].ret.val.total_amount, Dec(94, 0))

\* The names of the entries of bs, and of its k oldest entries.
Names(bs) == {NameOf(bs[i]) : i \in 1..Len(bs)}
Oldest(bs, k) == {NameOf(bs[i]) : i \in 1..k}

InCleanup(l) == l.pc \in {"c_list", "c_rm"}

(* C22: after cleanup_old_backups(base) has run on a backup directory with *)
(* n files of that base (their modification times pairwise distinct),      *)
(* exactly min(n, 10) of them remain and every remaining one is newer than *)
(* every deleted one: the files it deletes are the n - 10 oldest, and      *)
(* nothing else goes.                                                      *)
C22_CleanupKeepsNewest ==
    [][\A p \in Procs :
          LET m == Matching(backups, "dividends")
              n == Len(m)
          IN  /\ (loc[p].pc = "c_list" /\ loc'[p].pc = "c_rm")
                    => /\ n > MAX_BACKUPS
                       /\ {loc'[p].victims[i] : i \in 1..Len(loc'[p].victims)}
                            = Oldest(m, n - MAX_BACKUPS)
                       /\ Len(loc'[p].victims) = n - MAX_BACKUPS
              /\ (loc[p].pc = "c_list" /\ loc'[p].pc # "c_rm")
                    => n <= MAX_BACKUPS /\ backups' = backups
              /\ loc[p].pc = "c_rm"
                    => /\ Names(backups') = Names(backups) \ {Head(loc[p].victims)}
                       /\ Head(loc[p].victims) \in Names(backups)
              /\ (loc[p].pc = "c_rm" /\ loc'[p].pc # "c_rm")
                    => Len(Matching(backups', "dividends")) = MAX_BACKUPS]_vars

\* cleanup_old_backups has run on thirteen backups of dividends.json, taken
\* in the seconds 1..13: the ten of the seconds 4..13 are left.
C22_Witness ==
    \E p \in Procs :
        LET m == Matching(backups, "dividends")
        IN  /\ loc[p].op = "save" /\ loc[p].pc = "s_count"
            /\ Len(m) = MAX_BACKUPS
            /\ m[1].stamp = 4
            /\ m[MAX_BACKUPS].stamp = MAX_BACKUPS + 3

(* C23: within a save on an existing primary file the steps come in this   *)
(* order: the previous file is copied into the backup directory, then the  *)
(* new content is written to the primary path, and only then are old       *)
(* backups pruned: no backup is deleted before the new content is in       *)
(* place.                                                                  *)
C23_PruneAfterWrite ==
    [][\A p \in Procs :
          /\ (loc[p].op = "save" /\ loc[p].pc = "w_persist" /\ loc[p].pre # NoFile)
                => HoldsCopy(backups, loc[p].pre)
          /\ (loc[p].op = "save" /\ loc[p].pc # "done" /\ Names(backups') # Names(backups)
                 /\ Names(backups') \subseteq Names(backups))
                => primary # loc[p].pre]_vars

(* C23, as the code has it: the previous file is copied into the backup    *)
(* directory, then old backups are pruned, and only then is the new        *)
(* content written to the primary path: every deletion happens while the   *)
(* primary path still holds the previous content, and the rename finds     *)
(* the copy made and the pruning done and changes no backup.               *)
C23_PruneBeforeWrite ==
    [][\A p \in Procs :
          /\ (loc[p].op = "save" /\ loc[p].pc = "w_persist" /\ loc[p].pre # NoFile)
                => /\ HoldsCopy(backups, loc[p].pre)
                   /\ Len(Matching(backups, "dividends")) <= MAX_BACKUPS
                   /\ backups' = backups
          /\ (loc[p].op = "save" /\ loc[p].pc # "done" /\ Names(backups') # Names(backups)
                 /\ Names(backups') \subseteq Names(backups))
                => /\ primary = loc[p].pre
                   /\ primary' = primary
                   /\ HoldsCopy(backups, loc[p].pre)]_vars

\* A save has deleted the three oldest of thirteen backups and is writing
\* its temporary file; the primary path still holds the previous content.
C23_Witness ==
    \E p \in Procs :
        /\ loc[p].op = "save" /\ loc[p].pc = "w_write" /\ Len(loc[p].tmp) > 0
        /\ primary = loc[p].pre
        /\ Len(Matching(backups, "dividends")) = MAX_BACKUPS
        /\ Matching(backups, "dividends")[1].stamp = 4
        /\ HoldsCopy(backups, loc[p].pre)

(* C24: under every interleaving of two concurrent saves (of R1 and R2)    *)
(* and a concurrent load on a directory whose primary file holds a valid   *)
(* envelope of P, the primary path holds a complete valid envelope at      *)
(* every instant; the load returns P, R1 or R2 and never takes the         *)
(* corruption path; and once both saves have returned, load returns R1 or  *)
(* R2.                                                                     *)
C24_ConcurrentSavesAndLoad ==
    LET P  == FromStr(loc[1].pre).data
        R1 == loc[1].arg
        R2 == loc[2].arg
    IN  /\ Parses(primary)
        /\ FromStr(primary).data \in {P, R1, R2}
        /\ loc[3].op = "load" => loc[3].pc \in {"l_exists", "l_read", "done"}
        /\ LoadDone(3) => loc[3].ret.ok /\ loc[3].ret.val \in {P, R1, R2}
        /\ (loc[1].pc = "done" /\ loc[2].pc = "done")
              => /\ LoadFS(Disk, now).ret.ok
                 /\ LoadFS(Disk, now).ret.val \in {R1, R2}

\* The load has returned R1 while the save of another record set R2 is
\* still writing its temporary file.
C24_Witness ==
    /\ LoadDone(3)
    /\ loc[3].ret = Ok(loc[1].arg)
    /\ SaveDone(1)
    /\ loc[2].pc = "w_write" /\ Len(loc[2].tmp) > 0
    /\ loc[1].arg # loc[2].arg
    /\ loc[1].arg # FromStr(loc[1].pre).data

(* C25: load never removes a backup: no step of a load (also of a load     *)
(* that finds the primary file corrupted, whatever the clock second) takes *)
(* a backup away or changes its content: every backup in the directory     *)
(* before the step is there with the same content after it (the copy the   *)
(* load itself is in the middle of writing aside).                         *)
C25_LoadKeepsBackups ==
    [][\A p \in Procs :
          (loc'[p].op = "load" /\ loc'[p] # loc[p])
              => \A i \in 1..Len(backups) :
                    \/ BeingCopied(NameOf(backups[i]))
                    \/ /\ HasBackup(backups', NameOf(backups[i]))
                       /\ BytesOf(backups', NameOf(backups[i])) = backups[i].bytes]_vars

\* What the primary path can hold in full: an envelope, or bytes that are
\* not one.
WholeContent(b) == Parses(b) \/ b \in Garbage

(* C26: in every state, also the one a crash at any step of save or load   *)
(* leaves, every backup of dividends.json holds a whole content of the     *)
(* primary file, never a truncated or partial copy (the copy some process  *)
(* is still in the middle of writing aside).                               *)
C26_BackupsWhole ==
    \A i \in 1..Len(backups) :
        backups[i].base = "dividends"
            => BeingCopied(NameOf(backups[i])) \/ WholeContent(backups[i].bytes)

(* C27: a load on a directory whose primary file is absent or holds a      *)
(* valid envelope (of the current, an older or a newer schema_version)     *)
(* changes nothing on disk: no step of it creates a directory, creates,    *)
(* changes or deletes a backup, or changes the primary file or             *)
(* holdings.json.                                                          *)
C27_LoadReadOnly ==
    [][\A p \in Procs :
          (loc'[p].op = "load" /\ loc'[p] # loc[p] /\ (primary = NoFile \/ Parses(primary)))
              => Disk' = Disk]_vars

\* A load has returned the records of an envelope of an older
\* schema_version; the envelope is still at the primary path, beside ten
\* backups.
C27_Witness ==
    /\ LoadDone(1)
    /\ OlderStored(primary)
    /\ loc[1].pre = primary
    /\ loc[1].ret = Ok(FromStr(primary).data)
    /\ FromStr(primary).data # Empty
    /\ Len(backups) = MAX_BACKUPS

\* The backups of one file, by their names.
HoldingsBackups(bs) == LET Named(e) == e.base = "holdings" IN SelectSeq(bs, Named)
DividendsBackups(bs) == LET Named(e) == e.base = "dividends" IN SelectSeq(bs, Named)

(* C28: pruning is per base filename: no step of save, save_dividends,     *)
(* load or load_dividends deletes or changes a backup of holdings.json,    *)
(* and save_holdings and load_holdings delete or change no backup of       *)
(* dividends.json; a completed save leaves at most ten backups of          *)
(* dividends.json and a save_holdings or load_holdings at most ten of      *)
(* holdings.json, however many backups the other base has.                 *)
C28_PruningPerBase ==
    [][\A p \in Procs :
          /\ (loc'[p].op \in {"save", "load", "save_dividends", "load_dividends"}
                 /\ loc'[p] # loc[p])
                => HoldingsBackups(backups') = HoldingsBackups(backups)
          /\ (loc'[p].op \in {"save_holdings", "load_holdings"} /\ loc'[p] # loc[p])
                => /\ DividendsBackups(backups') = DividendsBackups(backups)
                   /\ Len(HoldingsBackups(backups')) <= MAX_BACKUPS
                   /\ Len(HoldingsBackups(backups')) >= Len(HoldingsBackups(backups))
          /\ (loc'[p].op \in {"save", "save_dividends"} /\ loc'[p].pc = "done"
                 /\ loc[p].pc # "done" /\ loc'[p].ret.ok)
                => Len(DividendsBackups(backups')) <= MAX_BACKUPS]_vars

\* A save_holdings has taken the eleventh backup of holdings.json and pruned
\* the oldest, beside thirteen backups of dividends.json that it left alone.
C28_Witness ==
    /\ loc[1].op = "save_holdings" /\ loc[1].pc = "done" /\ loc[1].ret.ok
    /\ Len(HoldingsBackups(backups)) = MAX_BACKUPS
    /\ HoldingsBackups(backups)[1].stamp = 2
    /\ Len(DividendsBackups(backups)) = MAX_BACKUPS + MaxExtra

(* C29: for every save_count c a valid primary file holds, the largest     *)
(* value of the field included, a save on that file completes and writes   *)
(* a save_count strictly greater than c: the counter never wraps to a      *)
(* smaller value and the increment never aborts the save.                  *)
C29_SaveCountGrows ==
    \A p \in Procs :
        (SaveDone(p) /\ Parses(loc[p].pre))
            => /\ loc[p].ret.ok
               /\ SaveCountOf(primary) > SaveCountOf(loc[p].pre)

NewerStored(b) == Parses(b) /\ FromStr(b).schema_version > SCHEMA_VERSION

(* C30: a load of a primary file whose envelope has a schema_version newer *)
(* than SCHEMA_VERSION returns the envelope's record set as stored, with   *)
(* no error; a save on top of such a file writes an envelope stamped with  *)
(* SCHEMA_VERSION; and load fails for no schema_version of a valid         *)
(* envelope, older, current or newer.                                      *)
C30_NewerSchemaLoads ==
    \A p \in Procs :
        /\ (LoadDone(p) /\ NewerStored(loc[p].pre))
              => /\ loc[p].ret = Ok(FromStr(loc[p].pre).data)
                 /\ primary = loc[p].pre
        /\ (SaveDone(p) /\ loc[p].ret.ok /\ NewerStored(loc[p].pre))
              => /\ Parses(primary)
                 /\ FromStr(primary).schema_version = SCHEMA_VERSION
                 /\ FromStr(primary).data = loc[p].arg
        /\ (LoadDone(p) /\ Parses(loc[p].pre)) => loc[p].ret.ok

\* A load has returned the dividends and holdings of an envelope stamped
\* with SCHEMA_VERSION + 1.
C30_Witness ==
    /\ LoadDone(1)
    /\ NewerStored(primary)
    /\ loc[1].pre = primary
    /\ loc[1].ret.ok
    /\ loc[1].ret.val = [dividends |-> <<1, 2>>, holdings |-> Aapl]

====
